---- MODULE Spec2Model ----
(***************************************************************************)
(* GnomeCodexBar: the cache / refresh state machine of CodexBarExtension   *)
(* (extension.js), the fetch attempt of fetchProviders (cli.js), the       *)
(* durable cache keys in GSettings and the consumers that read the state   *)
(* (indicator.updateState, menu.rebuildMenu), and the functions of         *)
(* provider-utils.js they call.                                            *)
(*                                                                         *)
(* A JavaScript value that may be null is modelled as a set with at most   *)
(* one element: null is {} and a value v is {v}.  A string is a sequence   *)
(* of tokens, so that the empty string is <<>>.                            *)
(*                                                                         *)
(* Time is the wall clock (Math.floor(Date.now() / 1000)), taken to be     *)
(* monotonic, in units of one minute.  The preferences window keeps        *)
(* cli-timeout in [5, 60] seconds and stale-after-seconds in [60, 3600],   *)
(* so no timeout is longer than a staleness window; the model keeps that   *)
(* relation: the timeout is one unit, the window one or two.               *)
(***************************************************************************)
EXTENDS Integers, Sequences, FiniteSets, TLC

VARIABLES
    pc,          \* position in the lifecycle: "off", "seeded", "rendered", "on"
    now,         \* wall clock, seconds
    _state,      \* this._state
    _cache,      \* this._cache: [providers, timestamp, error]
    _refreshTimerId, \* this._refreshTimerId: {} or {interval}
    settings,    \* the GSettings store (durable): configuration and cache keys
    inflight,    \* the fetchProviders calls awaited by a _refresh continuation
    ui,          \* what the last _updateUI evaluated and passed to updateState
    menu,        \* what the last rebuildMenu read through the getters
    sources,     \* the periodic timeout sources armed in the GLib main loop
    call,        \* a function of the library called on its own: input, result
    tui          \* the UsageTuiIndicator of the usage-tui extension

vars == <<pc, now, _state, _cache, _refreshTimerId, settings, inflight, ui, menu,
          sources, call, tui>>

----------------------------------------------------------------------------
(* Bounds of the model *)

MaxNow == 4
MaxInFlight == 2
MaxCount == 3
MaxArray == 2
MaxProviders == 2
MaxRefreshes == 3

----------------------------------------------------------------------------
(* JavaScript values *)

null == {}
Some(v) == {v}
Get(o) == CHOOSE v \in o : TRUE

\* State enum
IDLE == "idle"
LOADING == "loading"
OK == "ok"
STALE == "stale"
ERROR == "error"
ERROR_WITH_CACHE == "error_with_cache"

State == {IDLE, LOADING, OK, STALE, ERROR, ERROR_WITH_CACHE}

\* Values the preferences window allows
TimeoutValues == {1}
StaleValues == {1, 2}
IntervalValues == {60, 300}
WarningValues == {20, 50}
CriticalValues == {5, 10}

----------------------------------------------------------------------------
(* JSON values.  A value is a record tagged by t; the raw provider payload  *)
(* of the CLI is the object RawProvider.  Identifiers are atoms.            *)

JNull == [t |-> "null"]
JBool(b) == [t |-> "bool", bool |-> b]
JNum(n) == [t |-> "num", num |-> n]
JStr(str) == [t |-> "str", str |-> str]
JArr(items) == [t |-> "arr", items |-> items]

\* JavaScript truthiness of a parsed value
truthy(v) == v \notin {JNull, JBool(FALSE), JNum(0), JStr("")}

\* raw usage window, raw error object, raw usage object, raw provider payload
RawWindow(usedPercent, resetsAt) ==
    [usedPercent |-> usedPercent, resetsAt |-> resetsAt]
RawError(message) == [message |-> message]
RawUsage(primary, secondary, tertiary) ==
    [primary |-> primary, secondary |-> secondary, tertiary |-> tertiary]
RawProvider(provider, usage, error) ==
    [t |-> "raw", provider |-> provider, usage |-> usage, error |-> error]

\* the payloads of a CLI run used by the state machine: three providers (one
\* of them reporting an error) and the CLI's own metadata entry
rawCodex ==
    RawProvider(Some("codex"),
                Some(RawUsage(Some(RawWindow(Some(70), null)), null, null)), null)
rawClaude ==
    RawProvider(Some("claude"),
                Some(RawUsage(Some(RawWindow(Some(40), null)),
                              Some(RawWindow(Some(92), Some(3))), null)), null)
rawGemini ==
    RawProvider(Some("gemini"), null, Some(RawError(Some(<<"not logged in">>))))
rawCli == RawProvider(Some("cli"), null, null)

----------------------------------------------------------------------------
(* provider-utils.js *)

\* PROVIDER_NAMES, for the provider ids of the model
PROVIDER_NAMES ==
    [codex |-> "Codex", claude |-> "Claude Code", gemini |-> "Gemini"]

\* String.prototype.toLowerCase, on the identifiers of the model
toLowerCase(id) ==
    CASE id = "CODEX" -> "codex"
      [] id = "Claude" -> "claude"
      [] OTHER -> id

\* Provider ids are atoms; these two stand for ids that are not strings,
\* the numbers 7 and 0.  A number has no toLowerCase method, and ?. guards
\* against null and undefined only: calling it raises a TypeError.
NumberIds == {"<7>", "<0>"}
TypeError == [t |-> "TypeError"]
notAFunction(id) == id # null /\ Get(id) \in NumberIds

\* formatProviderName: PROVIDER_NAMES[id?.toLowerCase()] || id || 'Unknown'
formatProviderName(id) ==
    IF id # null /\ toLowerCase(Get(id)) \in DOMAIN PROVIDER_NAMES
    THEN PROVIDER_NAMES[toLowerCase(Get(id))]
    ELSE IF id # null /\ Get(id) # "" THEN Get(id)
    ELSE "Unknown"

\* (variant: the remaining percent is clamped at 0)
normalizeWindow_clamped(window, defaultLabel) ==
    IF window = null THEN null
    ELSE LET w == Get(window)
             used == IF w.usedPercent # null THEN Get(w.usedPercent) ELSE 0
         IN  Some([label |-> defaultLabel,
                   usedPercent |-> used,
                   remainingPercent |-> IF used > 100 THEN 0 ELSE 100 - used,
                   resetsAt |-> w.resetsAt])

\* normalizeWindow
normalizeWindow(window, defaultLabel) ==
    IF window = null THEN null
    ELSE LET w == Get(window)
             used == IF w.usedPercent # null THEN Get(w.usedPercent) ELSE 0
         IN  Some([label |-> defaultLabel,
                   usedPercent |-> used,
                   remainingPercent |-> 100 - used,
                   resetsAt |-> w.resetsAt])

\* the normalized provider; the fields copied through unread by the state
\* machine (version, source, account, organization, plan, status, credits)
\* are left out
Provider(id, name, primary, secondary, tertiary, error) ==
    [t |-> "provider", id |-> id, name |-> name, primary |-> primary,
     secondary |-> secondary, tertiary |-> tertiary, error |-> error]

\* normalizeProvider: null for a falsy input; a value that is not an object
\* has no properties, so every field takes its default
normalizeProvider(raw) ==
    IF ~truthy(raw) THEN JNull
    ELSE IF raw.t # "raw"
    THEN Provider("unknown", formatProviderName(null), null, null, null, null)
    ELSE IF notAFunction(raw.provider) THEN TypeError
    ELSE LET named == raw.provider # null /\ Get(raw.provider) # ""
             window(slot, label) ==
                 IF raw.usage = null THEN null
                 ELSE normalizeWindow(Get(raw.usage)[slot], label)
         IN  Provider(IF named THEN Get(raw.provider) ELSE "unknown",
                      formatProviderName(raw.provider),
                      window("primary", "Session"),
                      window("secondary", "Weekly"),
                      window("tertiary", "Tertiary"),
                      raw.error)

\* calculateAggregateStats: the default thresholds
DefaultOptions == [warningThreshold |-> 20, criticalThreshold |-> 5]

\* [p.primary, p.secondary, p.tertiary].filter(w => w)
windowsOf(p) ==
    SelectSeq(<<p.primary, p.secondary, p.tertiary>>, LAMBDA w : w # null)

\* (variant: providers with errors are counted like the others)
skipped_never(p) == FALSE

\* calculateAggregateStats: if (p.error) continue
skipped(p) == p.error # null

\* (variant: a window as low as the minimum so far replaces it)
lowers_onTie(w, minPercent) == w.remainingPercent <= minPercent

\* calculateAggregateStats: the window replaces the minimum so far
lowers(w, minPercent) == w.remainingPercent < minPercent

\* (variant: a window exactly at a threshold counts for it)
bucket_inclusive(w, options) ==
    IF w.remainingPercent <= options.criticalThreshold THEN "critical"
    ELSE IF w.remainingPercent <= options.warningThreshold THEN "warning"
    ELSE "neither"

\* calculateAggregateStats: the count the window adds to
bucket(w, options) ==
    IF w.remainingPercent < options.criticalThreshold THEN "critical"
    ELSE IF w.remainingPercent < options.warningThreshold THEN "warning"
    ELSE "neither"

\* calculateAggregateStats: the inner loop, over the windows of provider p
RECURSIVE statsOfWindows(_, _, _, _)
statsOfWindows(windows, p, acc, options) ==
    IF windows = <<>> THEN acc
    ELSE LET w == Get(Head(windows))
             a1 == IF lowers(w, acc.minPercent)
                   THEN [acc EXCEPT !.minPercent = w.remainingPercent,
                                    !.urgentProvider = Some(p)]
                   ELSE acc
             a2 == IF bucket(w, options) = "critical"
                   THEN [a1 EXCEPT !.criticalCount = @ + 1]
                   ELSE IF bucket(w, options) = "warning"
                   THEN [a1 EXCEPT !.warningCount = @ + 1]
                   ELSE a1
             a3 == IF /\ w.resetsAt # null
                      /\ \/ a2.nextReset = null
                         \/ Get(w.resetsAt) < Get(a2.nextReset)
                   THEN [a2 EXCEPT !.nextReset = w.resetsAt]
                   ELSE a2
         IN  statsOfWindows(Tail(windows), p, a3, options)

\* calculateAggregateStats: the outer loop, skipping providers with errors
RECURSIVE statsOfProviders(_, _, _)
statsOfProviders(providers, acc, options) ==
    IF providers = <<>> THEN acc
    ELSE LET p == Head(providers)
         IN  statsOfProviders(Tail(providers),
                 IF skipped(p) THEN acc
                 ELSE statsOfWindows(windowsOf(p), p, acc, options),
                 options)

\* calculateAggregateStats(providers, options)
calculateAggregateStats(providers, options) ==
    IF providers = null \/ Len(Get(providers)) = 0
    THEN [minRemainingPercent |-> null, urgentProvider |-> null,
          warningCount |-> 0, criticalCount |-> 0, nextResetTime |-> null]
    ELSE LET acc == statsOfProviders(Get(providers),
                        [minPercent |-> 100, urgentProvider |-> null,
                         warningCount |-> 0, criticalCount |-> 0,
                         nextReset |-> null], options)
         IN  [minRemainingPercent |->
                  IF acc.minPercent < 100 THEN Some(acc.minPercent) ELSE null,
              urgentProvider |-> acc.urgentProvider,
              warningCount |-> acc.warningCount,
              criticalCount |-> acc.criticalCount,
              nextResetTime |-> acc.nextReset]

----------------------------------------------------------------------------
(* JSON text.  A text is a sequence of tokens, the empty string is <<>>.   *)
(* The tokens of a document are its brackets and the literals of its       *)
(* values; " " is white space and any other token is not JSON.             *)

\* the elements a CLI array can hold: provider payloads, the empty object,
\* null and other values that are not objects
Elements ==
    { rawCodex, rawClaude, rawGemini, rawCli,
      RawProvider(null, null, null),
      RawProvider(Some("claude"), null, null),
      JNull, JNum(0), JNum(7), JBool(FALSE), JBool(TRUE), JStr(""),
      JStr("codex") }

\* every value that has a literal: the elements and what they normalize to
Values == Elements \cup { normalizeProvider(e) : e \in Elements }

\* the literal of a value, and the value of a literal
Literals == [v \in Values |-> ToString(v)]
lit(v) == Literals[v]
isLiteral(token) == \E v \in Values : Literals[v] = token
unlit(token) == CHOOSE v \in Values : Literals[v] = token

\* JSON.stringify of a value that is not an array, and of an array
stringifyValue(v) == <<lit(v)>>
stringify(list) ==
    <<"[">> \o [i \in 1 .. Len(list) |-> lit(list[i])] \o <<"]">>

\* String.prototype.trim
RECURSIVE trimStart(_)
trimStart(text) ==
    IF text # <<>> /\ Head(text) = " " THEN trimStart(Tail(text)) ELSE text
RECURSIVE trimEnd(_)
trimEnd(text) ==
    IF text # <<>> /\ text[Len(text)] = " "
    THEN trimEnd(SubSeq(text, 1, Len(text) - 1)) ELSE text
trim(text) == trimEnd(trimStart(text))

\* JSON.parse: whether it returns, and what (white space around a document
\* is allowed); parse is JSON.parse of a stringified list
isJSON(text) ==
    LET doc == trim(text) IN
    \/ Len(doc) = 1 /\ isLiteral(doc[1])
    \/ /\ Len(doc) >= 2 /\ doc[1] = "[" /\ doc[Len(doc)] = "]"
       /\ \A i \in 2 .. Len(doc) - 1 : isLiteral(doc[i])
parse(text) == [i \in 1 .. Len(text) - 2 |-> unlit(text[i + 1])]
JSONparse(text) ==
    LET doc == trim(text) IN
    IF Len(doc) = 1 THEN unlit(doc[1]) ELSE JArr(parse(doc))

\* tryParseJSON: the parsed value, or null
tryParseJSON(text) ==
    IF Len(text) = 0 \/ Len(trim(text)) = 0 THEN JNull
    ELSE IF isJSON(text) THEN JSONparse(text)
    ELSE JNull

----------------------------------------------------------------------------
(* cli.js: findCLI and fetchProviders *)

\* the file system: the executables a configured path can name, and what
\* GLib.find_program_in_path('codexbar') can return
Executables == {"/opt/codexbar"}
CliPaths == {"", "/opt/codexbar", "/tmp/missing"}
PathLookups == {null, Some("/usr/bin/codexbar")}

\* (variant: a configured path that is not executable falls back to PATH)
findCLI_fallsBack(customPath, inPath) ==
    IF customPath # "" /\ customPath \in Executables THEN Some(customPath)
    ELSE inPath

\* findCLI(customPath), inPath being the result of the PATH lookup
findCLI(customPath, inPath) ==
    IF customPath # ""
    THEN IF customPath \in Executables THEN Some(customPath) ELSE null
    ELSE inPath

\* Messages of the failures of fetchProviders (strings, as token sequences)
NotFoundMsg == <<"codexbar CLI not found">>
TimeoutMsg(timeout) == <<"CLI timed out after", timeout, "s">>
ExitCodeMsg(exitStatus) == <<"CLI failed with exit code", exitStatus>>
ParseMsg == <<"Failed to parse CLI JSON output">>
FormatMsg == <<"CLI returned unexpected format (expected array)">>
\* e.message of the TypeError of reading a property of null
NullReadMsg == <<"p is null">>
NotAFunctionMsg == <<"id?.toLowerCase is not a function">>

\* What the external process can do: exit status, standard output and
\* standard error
ProcessOutcomes ==
    { [exitStatus |-> 0, stdout |-> stringify(<<>>), stderr |-> <<>>],
      [exitStatus |-> 0,
       stdout |-> stringify(<<rawCodex, rawClaude, rawGemini, rawCli>>),
       stderr |-> <<>>],
      [exitStatus |-> 0, stdout |-> <<"oops">>, stderr |-> <<>>],
      [exitStatus |-> 1, stdout |-> <<>>, stderr |-> <<>>] }

isArray(v) == v.t = "arr"

Failure(message, timestamp) ==
    [success |-> FALSE, providers |-> null, error |-> Some(message),
     timestamp |-> timestamp]
Success(list, timestamp) ==
    [success |-> TRUE, providers |-> Some(list), error |-> null,
     timestamp |-> timestamp]

\* p.error of an array element: a value that is not an object has none
hasError(p) == "error" \in DOMAIN p /\ p.error # null

\* the nonzero exit: the message of the first element carrying an error, of
\* the array parsed from stdout or else from stderr; otherwise stderr
exitFailure(proc, timestamp) ==
    LET out == tryParseJSON(proc.stdout)
        errorPayload == IF truthy(out) THEN out ELSE tryParseJSON(proc.stderr)
        generic == ExitCodeMsg(proc.exitStatus)
        text == IF trim(proc.stderr) # <<>> THEN trim(proc.stderr) ELSE generic
        items == errorPayload.items
        stops == { i \in 1 .. Len(items) : items[i] = JNull \/ hasError(items[i]) }
        first == CHOOSE i \in stops : \A j \in stops : i <= j
        message == Get(items[first].error).message
    IN  IF truthy(errorPayload) /\ isArray(errorPayload) /\ stops # {}
        THEN IF items[first] = JNull THEN Failure(NullReadMsg, timestamp)
             ELSE IF message # null /\ Get(message) # <<>>
             THEN Failure(Get(message), timestamp)
             ELSE Failure(generic, timestamp)
        ELSE Failure(text, timestamp)

\* data.filter(p => p.provider !== 'cli').map(p => normalizeProvider(p))
isCliMeta(p) == "provider" \in DOMAIN p /\ p.provider = Some("cli")
providersOf(data) ==
    LET kept == SelectSeq(data, LAMBDA p : ~isCliMeta(p))
    IN  [i \in 1 .. Len(kept) |-> normalizeProvider(kept[i])]

\* The result of a process that ran to completion
completed(proc, timestamp) ==
    LET data == tryParseJSON(proc.stdout) IN
    IF proc.exitStatus # 0 THEN exitFailure(proc, timestamp)
    ELSE IF ~truthy(data) THEN Failure(ParseMsg, timestamp)
    ELSE IF ~isArray(data) THEN Failure(FormatMsg, timestamp)
    ELSE IF \E i \in 1 .. Len(data.items) : data.items[i] = JNull
    THEN Failure(NullReadMsg, timestamp)
    ELSE IF \E i \in 1 .. Len(providersOf(data.items)) :
                providersOf(data.items)[i] = TypeError
    THEN Failure(NotAFunctionMsg, timestamp)
    ELSE Success(providersOf(data.items), timestamp)

\* Normalized provider lists a successful fetch of the state machine returns
ThreeProviders == providersOf(<<rawCodex, rawClaude, rawGemini, rawCli>>)
ProviderLists == { <<>>, ThreeProviders }

\* (variant: the result is stamped when the attempt completes)
fetchProviders_stampsCompletion(f, proc) ==
    IF f.status = "notfound" THEN Failure(NotFoundMsg, now)
    ELSE IF f.status = "cancelled" THEN Failure(TimeoutMsg(f.timeout), now)
    ELSE completed(proc, now)

\* (variant: a cancelled wait still hands the late output on)
fetchProviders_lateOutput(f, proc) ==
    IF f.status = "notfound" THEN Failure(NotFoundMsg, f.start)
    ELSE completed(proc, f.start)

\* The result the awaiting _refresh receives for fetch attempt f
fetchProviders(f, proc) ==
    IF f.status = "notfound" THEN Failure(NotFoundMsg, f.start)
    ELSE IF f.status = "cancelled" THEN Failure(TimeoutMsg(f.timeout), f.start)
    ELSE completed(proc, f.start)

----------------------------------------------------------------------------
(* extension.js: the cache and the state machine *)

constructed == [providers |-> null, timestamp |-> 0, error |-> null]

\* (variant: data exactly staleAfter old already counts as stale)
isStale_inclusive(a, staleAfter) == a >= staleAfter

\* the staleness rule: age > staleAfter
isStale(a, staleAfter) == a > staleAfter

\* _loadCache: the in-memory cache after reading the durable keys
loadedCache(cache, s) ==
    LET c1 == IF Len(s.cachePayload) > 0
              THEN [cache EXCEPT !.providers = Some(parse(s.cachePayload)),
                                 !.timestamp = s.cacheTs]
              ELSE cache
    IN  IF Len(s.cacheError) > 0
        THEN [c1 EXCEPT !.error = Some(s.cacheError)]
        ELSE c1

\* (variant: a record holding only an error does not seed ERROR)
seedState_noError(state, cache, staleAfter, t) ==
    IF cache.providers # null
    THEN IF isStale(t - cache.timestamp, staleAfter) THEN STALE ELSE OK
    ELSE state

\* _loadCache: the initial state determined from the loaded cache
seedState(state, cache, staleAfter, t) ==
    IF cache.providers # null
    THEN IF isStale(t - cache.timestamp, staleAfter) THEN STALE ELSE OK
    ELSE IF cache.error # null THEN ERROR
    ELSE state

\* (variant: cache-last-error is written only when there is an error)
saveCache_keepsOldError(s, cache) ==
    LET s1 == IF cache.providers # null
              THEN [s EXCEPT !.cachePayload = stringify(Get(cache.providers)),
                             !.cacheTs = cache.timestamp]
              ELSE s
    IN  IF cache.error # null
        THEN [s1 EXCEPT !.cacheError = Get(cache.error)]
        ELSE s1

\* _saveCache: the durable keys after saving the in-memory cache
saveCache(s, cache) ==
    LET s1 == IF cache.providers # null
              THEN [s EXCEPT !.cachePayload = stringify(Get(cache.providers)),
                             !.cacheTs = cache.timestamp]
              ELSE s
    IN  [s1 EXCEPT !.cacheError = IF cache.error # null THEN Get(cache.error)
                                  ELSE <<>>]

\* (variant: the previous error message survives a success)
cacheOnSuccess_keepsError(cache, result) ==
    [providers |-> result.providers, timestamp |-> result.timestamp,
     error |-> cache.error]

\* _refresh, success branch: cache and state
cacheOnSuccess(cache, result) ==
    [providers |-> result.providers, timestamp |-> result.timestamp,
     error |-> null]
stateOnSuccess == OK

\* (variant: a failure drops the cached payload)
cacheOnFailure_dropsPayload(cache, result) ==
    [cache EXCEPT !.providers = null, !.error = result.error]

\* (variant: a failure stores a message of its own)
cacheOnFailure_generic(cache, result) ==
    [cache EXCEPT !.error = Some(<<"Error">>)]

\* (variant: a failure stores the result's empty payload)
cacheOnFailure_overwrites(cache, result) ==
    [providers |-> result.providers, timestamp |-> result.timestamp,
     error |-> result.error]

\* (variant: a failure always reports ERROR, cached payload or not)
stateOnFailure_ignoresCache(cache) == ERROR

\* _refresh, failure branch: cache and state
cacheOnFailure(cache, result) == [cache EXCEPT !.error = result.error]
stateOnFailure(cache) ==
    IF cache.providers # null THEN ERROR_WITH_CACHE ELSE ERROR

\* (variant: the timer being replaced is left armed)
scheduled_leaks(armed, timerId, interval) == armed \cup {interval}

\* _scheduleRefresh: the sources armed after it; timerId is removed if set
scheduled(armed, timerId, interval) == (armed \ timerId) \cup {interval}

\* _refresh: the re-entrancy guard
skipsRefresh(state) == state = LOADING

\* _updateUI: cache age and the lazily evaluated state
cacheAge(cache, t) == IF cache.timestamp > 0 THEN t - cache.timestamp ELSE 0
evalState(state, cache, staleAfter, t) ==
    IF state = OK /\ isStale(cacheAge(cache, t), staleAfter) THEN STALE ELSE state

\* (variant: a warning outranks a critical window)
visualState_warningFirst(state, stats) ==
    IF state \in {ERROR, ERROR_WITH_CACHE} THEN "error"
    ELSE IF state = STALE THEN "stale"
    ELSE IF state = LOADING THEN "loading"
    ELSE IF stats.warningCount > 0 THEN "warning"
    ELSE IF stats.criticalCount > 0 THEN "critical"
    ELSE "normal"

\* _updateUI: the visual state
visualState(state, stats) ==
    IF state \in {ERROR, ERROR_WITH_CACHE} THEN "error"
    ELSE IF state = STALE THEN "stale"
    ELSE IF state = LOADING THEN "loading"
    ELSE IF stats.criticalCount > 0 THEN "critical"
    ELSE IF stats.warningCount > 0 THEN "warning"
    ELSE "normal"

\* _updateUI: what is passed to indicator.updateState
viewModel(state, cache, staleAfter, t) ==
    LET stats == calculateAggregateStats(cache.providers, DefaultOptions)
        evaluated == evalState(state, cache, staleAfter, t)
    IN  [state |-> evaluated,
         visualState |-> visualState(evaluated, stats),
         percentage |-> stats.minRemainingPercent,
         warningCount |-> stats.warningCount,
         criticalCount |-> stats.criticalCount,
         providers |-> cache.providers,
         timestamp |-> cache.timestamp,
         error |-> cache.error,
         nextReset |-> stats.nextResetTime]

\* calculateAggregateStats reads p.error of every entry of the list: an
\* entry that is null raises a TypeError, which _updateUI does not catch
throwsTypeError(cache) ==
    /\ cache.providers # null
    /\ \E i \in 1 .. Len(Get(cache.providers)) : Get(cache.providers)[i] = JNull

\* _updateUI with the indicator present: what the indicator has last been
\* given (still shown, if the call threw before the push), and the state
\* the call leaves
_updateUI(state, cache, staleAfter, t, shown) ==
    IF throwsTypeError(cache) THEN shown
    ELSE Some(viewModel(state, cache, staleAfter, t))
stateShown(state, cache, pushed) ==
    IF throwsTypeError(cache) THEN state ELSE Get(pushed).state

----------------------------------------------------------------------------
(* menu.js: what rebuildMenu reads through the getters and shows *)

\* _getMinPercent: the least remaining percent of the windows of a provider,
\* 100 if it has none
RECURSIVE leastOf(_, _)
leastOf(windows, min) ==
    IF windows = <<>> THEN min
    ELSE leastOf(Tail(windows),
                 IF Get(Head(windows)).remainingPercent < min
                 THEN Get(Head(windows)).remainingPercent ELSE min)
_getMinPercent(provider) == leastOf(windowsOf(provider), 100)

\* _buildProviderRows: the providers the visibility map does not send to
\* false (hidden is the set of ids it sends to false; an id it sends to true
\* is as good as absent)
visibleProviders(providers, hidden) ==
    SelectSeq(providers, LAMBDA p : p.id \notin hidden)

\* Array.prototype.sort with (a, b) => aMin - bMin, which is stable: p goes
\* behind every row that is not more urgent
RECURSIVE sortUrgent(_)
sortUrgent(providers) ==
    IF providers = <<>> THEN <<>>
    ELSE LET last == providers[Len(providers)]
             front == sortUrgent(SubSeq(providers, 1, Len(providers) - 1))
             ahead == SelectSeq(front, LAMBDA p :
                                   _getMinPercent(p) <= _getMinPercent(last))
             behind == SelectSeq(front, LAMBDA p :
                                    _getMinPercent(p) > _getMinPercent(last))
         IN  ahead \o <<last>> \o behind

\* _buildProviderRows (sort-mode 'urgent', the default): the ids of the
\* rows, top to bottom; reading p.id of a null entry throws and leaves the
\* provider section empty
_buildProviderRows(cache, hidden) ==
    IF cache.providers = null \/ throwsTypeError(cache) THEN <<>>
    ELSE LET sorted == sortUrgent(visibleProviders(Get(cache.providers), hidden))
         IN  [i \in 1 .. Len(sorted) |-> sorted[i].id]

\* settings?.get_int(key) || fallback
orDefault(v, fallback) == IF v = 0 THEN fallback ELSE v

\* _buildProviderRow: the visual state of a provider's row
_buildProviderRow(provider, s) ==
    LET minPercent == _getMinPercent(provider)
        warningThreshold == orDefault(s.warningThreshold, 20)
        criticalThreshold == orDefault(s.criticalThreshold, 5)
    IN  IF provider.error # null THEN "error"
        ELSE IF minPercent <= criticalThreshold THEN "critical"
        ELSE IF minPercent <= warningThreshold THEN "warning"
        ELSE "normal"

\* rebuildMenu: the state, the section shown and the provider rows
rebuildMenu(state, cache, hidden) ==
    [state |-> state,
     shows |-> IF state = ERROR /\ cache.providers = null THEN "error"
               ELSE IF cache.providers = null \/ Len(Get(cache.providers)) = 0
                    THEN "empty"
               ELSE "rows",
     rows |-> _buildProviderRows(cache, hidden)]

\* indicator.updateState rebuilds the menu only while it is open
reread(m, state, cache, hidden) ==
    IF m # null THEN Some(rebuildMenu(state, cache, hidden)) ELSE null

----------------------------------------------------------------------------
(* usage-tui extension.js: UsageTuiIndicator.  The output of a refresh is    *)
(* identified by the position of its subprocess in the order of spawning;   *)
(* 0 is the {} of construction.                                             *)

\* _refreshData: the panel label shows '...', then the subprocess is spawned;
\* if spawning throws, _handleError shows 'Err'
_refreshData(t, trigger, spawned) ==
    IF spawned
    THEN [t EXCEPT !.panelLabel = "...",
                   !.procs = Append(@, [trigger |-> trigger,
                                        status |-> "running"])]
    ELSE [t EXCEPT !.panelLabel = "Err"]

\* _init: the fields, the initial _refreshData (the timer is started next)
UsageTuiIndicator(spawned) ==
    _refreshData([_usageData |-> 0, _lastUpdated |-> null, shown |-> 0,
                  panelLabel |-> "", procs |-> <<>>],
                 "init", spawned)

\* the subprocesses that have exited, which orders the completions in time
exited(t) == Cardinality({ i \in 1 .. Len(t.procs) : t.procs[i].status # "running" })

\* _parseOutput of the output of subprocess i
_parseOutput(t, i, parsed) ==
    IF parsed
    THEN [t EXCEPT !._usageData = i, !._lastUpdated = Some(exited(t) + 1)]
    ELSE [t EXCEPT !.panelLabel = "Err"]

\* _updateUI: the cards and the panel label are drawn from this._usageData
updateCards(t) == [t EXCEPT !.shown = t._usageData, !.panelLabel = "data"]

\* _handleError
_handleError(t) == [t EXCEPT !.panelLabel = "Err"]

\* the callback of communicate_utf8_async for subprocess i
completion(t, i, outcome) ==
    LET t1 == IF outcome = "failed" THEN _handleError(t)
              ELSE updateCards(_parseOutput(t, i, outcome = "json"))
    IN  [t1 EXCEPT !.procs[i].status = outcome]

----------------------------------------------------------------------------
(* The initial state: a constructed extension, not enabled, first install *)

\* the GSettings store of a first install (times in the units of the model)
installed ==
    [staleAfter |-> 1, cliTimeout |-> 1, cliPath |-> "",
     refreshInterval |-> 300,
     warningThreshold |-> 20, criticalThreshold |-> 5,
     providerVisibility |-> {},
     cachePayload |-> <<>>, cacheTs |-> 0, cacheError |-> <<>>]

\* the state machine, as opposed to a library function called on its own
machine ==
    <<pc, now, _state, _cache, _refreshTimerId, settings, inflight, ui, menu,
      sources>>

Init ==
    /\ pc = "off"
    /\ now = 1
    /\ _state = IDLE
    /\ _cache = constructed
    /\ _refreshTimerId = null
    /\ settings = installed
    /\ inflight = <<>>
    /\ ui = null
    /\ menu = null
    /\ sources = {}
    /\ call = null
    /\ tui = UsageTuiIndicator(TRUE)

\* A continuation that resumes as a microtask (the fetch returned before it
\* awaited anything) runs before any other event is handled.
microtask == \E i \in 1 .. Len(inflight) : inflight[i].status = "notfound"

\* The fetch timeout timer of attempt f is due
due(f) == now >= f.start + f.timeout

\* Events are handled one at a time, between the steps of no other handler
idle == pc \in {"off", "on"} /\ ~microtask

----------------------------------------------------------------------------
(* _refresh up to its await, called with the indicator present *)

\* (variant: the attempt runs with a fixed timeout, whatever is configured)
started_fixedTimeout(cliPath, timeout, inPath, t) ==
    LET binary == findCLI(cliPath, inPath) IN
    [start |-> t, timeout |-> 1, cliPath |-> cliPath, binary |-> binary,
     status |-> IF binary = null THEN "notfound" ELSE "running"]

\* fetchProviders up to its first await: the attempt it starts
started(cliPath, timeout, inPath, t) ==
    LET binary == findCLI(cliPath, inPath) IN
    [start |-> t, timeout |-> timeout, cliPath |-> cliPath, binary |-> binary,
     status |-> IF binary = null THEN "notfound" ELSE "running"]

Refresh(inPath) ==
    IF skipsRefresh(_state)
    THEN UNCHANGED <<_state, ui, inflight>>
    ELSE /\ Len(inflight) < MaxInFlight
         /\ ui' = _updateUI(LOADING, _cache, settings.staleAfter, now, ui)
         /\ _state' = stateShown(LOADING, _cache, ui')
         /\ inflight' = IF throwsTypeError(_cache) THEN inflight
                        ELSE Append(inflight,
                                 started(settings.cliPath, settings.cliTimeout,
                                         inPath, now))

----------------------------------------------------------------------------
(* enable(), in three steps no other event can interleave with *)

\* getSettings and _loadCache
EnableLoadCache ==
    /\ pc = "off" /\ ~microtask
    /\ Len(inflight) < MaxInFlight
    /\ pc' = "seeded"
    /\ _cache' = loadedCache(_cache, settings)
    /\ _state' = seedState(_state, _cache', settings.staleAfter, now)
    /\ UNCHANGED <<now, call, tui, _refreshTimerId, sources, settings, inflight, ui, menu>>

\* the indicator is created, the settings signal connected, first _updateUI
\* (if that throws, enable() ends there: no timer, no initial fetch)
EnableRender ==
    /\ pc = "seeded"
    /\ pc' = IF throwsTypeError(_cache) THEN "on" ELSE "rendered"
    /\ ui' = _updateUI(_state, _cache, settings.staleAfter, now, ui)
    /\ _state' = stateShown(_state, _cache, ui')
    /\ UNCHANGED <<now, call, tui, _cache, _refreshTimerId, sources, settings, inflight, menu>>

\* _scheduleRefresh and the initial _refresh
EnableStart ==
    /\ pc = "rendered"
    /\ pc' = "on"
    /\ _refreshTimerId' = Some(settings.refreshInterval)
    /\ sources' = scheduled(sources, _refreshTimerId, settings.refreshInterval)
    /\ \E inPath \in PathLookups : Refresh(inPath)
    /\ UNCHANGED <<now, call, tui, _cache, settings, menu>>

\* disable()
Disable ==
    /\ pc = "on" /\ ~microtask
    /\ pc' = "off"
    /\ _refreshTimerId' = null
    /\ sources' = sources \ _refreshTimerId
    /\ ui' = null
    /\ menu' = null
    /\ _state' = IDLE
    /\ UNCHANGED <<now, call, tui, _cache, settings, inflight>>

\* The shell restarts: a new process constructs the extension; the GSettings
\* store is all that survives
Restart ==
    /\ idle
    /\ pc' = "off"
    /\ _state' = IDLE
    /\ _cache' = constructed
    /\ _refreshTimerId' = null
    /\ sources' = {}
    /\ inflight' = <<>>
    /\ ui' = null
    /\ menu' = null
    /\ UNCHANGED <<now, call, tui, settings>>

----------------------------------------------------------------------------
(* Refresh triggers *)

\* the periodic timer fires
TimerTick ==
    /\ idle /\ pc = "on" /\ sources # {}
    /\ \E inPath \in PathLookups : Refresh(inPath)
    /\ menu' = IF throwsTypeError(_cache) THEN menu
               ELSE reread(menu, _state', _cache, settings.providerVisibility)
    /\ UNCHANGED <<pc, now, call, tui, _cache, _refreshTimerId, sources, settings>>

\* the Refresh button of the open menu: manualRefresh, then the menu closes
ManualRefresh ==
    /\ idle /\ pc = "on" /\ menu # null
    /\ \E inPath \in PathLookups : Refresh(inPath)
    /\ menu' = null
    /\ UNCHANGED <<pc, now, call, tui, _cache, _refreshTimerId, sources, settings>>

\* the menu opens: manualRefresh if refresh-on-open, then rebuildMenu
MenuOpen(refreshOnOpen) ==
    /\ idle /\ pc = "on" /\ menu = null
    /\ IF refreshOnOpen
       THEN \E inPath \in PathLookups : Refresh(inPath)
       ELSE UNCHANGED <<_state, ui, inflight>>
    /\ menu' = Some(rebuildMenu(_state', _cache, settings.providerVisibility))
    /\ UNCHANGED <<pc, now, call, tui, _cache, _refreshTimerId, sources, settings>>

MenuClose ==
    /\ idle /\ pc = "on" /\ menu # null
    /\ menu' = null
    /\ UNCHANGED <<pc, now, call, tui, _state, _cache, _refreshTimerId, sources, settings, inflight, ui>>

----------------------------------------------------------------------------
(* The fetch attempt: timeout timer and completion *)

\* the timeout timer of attempt i fires: cancellable.cancel()
FetchTimeout(i) ==
    /\ idle
    /\ inflight[i].status = "running"
    /\ due(inflight[i])
    /\ inflight' = [inflight EXCEPT ![i].status = "cancelled"]
    /\ UNCHANGED <<pc, now, call, tui, _state, _cache, _refreshTimerId, sources, settings, ui, menu>>

remove(seq, i) == SubSeq(seq, 1, i - 1) \o SubSeq(seq, i + 1, Len(seq))

\* _refresh after its await, for attempt i resolved to result
Continue(i, result) ==
    /\ LET cache1 == IF result.success THEN cacheOnSuccess(_cache, result)
                     ELSE cacheOnFailure(_cache, result)
           state1 == IF result.success THEN stateOnSuccess
                     ELSE stateOnFailure(cache1)
       IN  /\ _cache' = cache1
           /\ IF pc = "on"
              THEN /\ settings' = saveCache(settings, cache1)
                   /\ ui' = _updateUI(state1, cache1, settings.staleAfter,
                                      now, ui)
                   /\ _state' = stateShown(state1, cache1, ui')
                   /\ menu' = IF throwsTypeError(cache1) THEN menu
                              ELSE reread(menu, _state', cache1,
                                          settings.providerVisibility)
              ELSE /\ _state' = state1
                   /\ UNCHANGED <<settings, ui, menu>>
    /\ inflight' = remove(inflight, i)
    /\ UNCHANGED <<pc, now, call, tui, _refreshTimerId, sources>>

\* the process of attempt i exits and its output arrives, in time or after
\* the timeout timer fired
ProcessExit(i, proc) ==
    /\ idle
    /\ inflight[i].status \in {"running", "cancelled"}
    /\ Continue(i, fetchProviders(inflight[i], proc))

\* attempt i resolves without any process output: the binary was not found
\* (at once, as a microtask), or the wait was cancelled by the timeout timer
FetchFailed(i) ==
    /\ pc \in {"off", "on"}
    /\ inflight[i].status = "notfound"
       \/ (inflight[i].status = "cancelled" /\ ~microtask)
    /\ Continue(i, fetchProviders(inflight[i],
                   [exitStatus |-> 0, stdout |-> <<>>, stderr |-> <<>>]))

----------------------------------------------------------------------------
(* Settings written by the preferences window *)

SetStaleAfter(v) ==
    /\ idle /\ v # settings.staleAfter
    /\ settings' = [settings EXCEPT !.staleAfter = v]
    /\ UNCHANGED <<pc, now, call, tui, _state, _cache, _refreshTimerId, sources, inflight, ui, menu>>

\* refresh-interval: _scheduleRefresh
SetRefreshInterval(v) ==
    /\ idle /\ v # settings.refreshInterval
    /\ settings' = [settings EXCEPT !.refreshInterval = v]
    /\ _refreshTimerId' = IF pc = "on" THEN Some(v) ELSE _refreshTimerId
    /\ sources' = IF pc = "on" THEN scheduled(sources, _refreshTimerId, v)
                  ELSE sources
    /\ UNCHANGED <<pc, now, call, tui, _state, _cache, inflight, ui, menu>>

\* show-text, show-badge, sort-mode, reset-display-mode,
\* provider-visibility: _updateUI (as for the two thresholds, which have
\* actions of their own below)
SetDisplayOption ==
    /\ idle
    /\ IF pc = "on"
       THEN /\ ui' = _updateUI(_state, _cache, settings.staleAfter, now, ui)
            /\ _state' = stateShown(_state, _cache, ui')
            /\ menu' = IF throwsTypeError(_cache) THEN menu
                       ELSE reread(menu, _state', _cache, settings.providerVisibility)
       ELSE UNCHANGED <<_state, ui, menu>>
    /\ UNCHANGED <<pc, now, call, tui, _cache, _refreshTimerId, sources, settings, inflight>>

\* cli-path: takes effect on the next refresh
SetCliPath(v) ==
    /\ idle /\ v # settings.cliPath
    /\ settings' = [settings EXCEPT !.cliPath = v]
    /\ UNCHANGED <<pc, now, call, tui, _state, _cache, _refreshTimerId, sources,
                   inflight, ui, menu>>

\* cli-timeout: takes effect on the next refresh
SetCliTimeout(v) ==
    /\ idle /\ v # settings.cliTimeout
    /\ settings' = [settings EXCEPT !.cliTimeout = v]
    /\ UNCHANGED <<pc, now, call, tui, _state, _cache, _refreshTimerId, sources,
                   inflight, ui, menu>>

\* warning-threshold: _updateUI
SetWarningThreshold(v) ==
    /\ idle /\ v # settings.warningThreshold
    /\ settings' = [settings EXCEPT !.warningThreshold = v]
    /\ IF pc = "on"
       THEN /\ ui' = _updateUI(_state, _cache, settings.staleAfter, now, ui)
            /\ _state' = stateShown(_state, _cache, ui')
            /\ menu' = IF throwsTypeError(_cache) THEN menu
                       ELSE reread(menu, _state', _cache, settings.providerVisibility)
       ELSE UNCHANGED <<_state, ui, menu>>
    /\ UNCHANGED <<pc, now, call, tui, _cache, _refreshTimerId, sources, inflight>>

\* critical-threshold: _updateUI
SetCriticalThreshold(v) ==
    /\ idle /\ v # settings.criticalThreshold
    /\ settings' = [settings EXCEPT !.criticalThreshold = v]
    /\ IF pc = "on"
       THEN /\ ui' = _updateUI(_state, _cache, settings.staleAfter, now, ui)
            /\ _state' = stateShown(_state, _cache, ui')
            /\ menu' = IF throwsTypeError(_cache) THEN menu
                       ELSE reread(menu, _state', _cache, settings.providerVisibility)
       ELSE UNCHANGED <<_state, ui, menu>>
    /\ UNCHANGED <<pc, now, call, tui, _cache, _refreshTimerId, sources, inflight>>

\* provider-visibility: the switch row of provider id in the preferences
\* window is flipped; the extension runs _updateUI
KnownProviders == {"codex", "claude", "gemini"}
SetProviderVisibility(id) ==
    /\ idle
    /\ settings' = [settings EXCEPT !.providerVisibility =
                        IF id \in @ THEN @ \ {id} ELSE @ \cup {id}]
    /\ IF pc = "on"
       THEN /\ ui' = _updateUI(_state, _cache, settings.staleAfter, now, ui)
            /\ _state' = stateShown(_state, _cache, ui')
            /\ menu' = IF throwsTypeError(_cache) THEN menu
                       ELSE reread(menu, _state', _cache,
                                   settings'.providerVisibility)
       ELSE UNCHANGED <<_state, ui, menu>>
    /\ UNCHANGED <<pc, now, call, tui, _cache, _refreshTimerId, sources, inflight>>

\* the Clear Cache row
ClearCache ==
    /\ idle
    /\ settings' = [settings EXCEPT !.cachePayload = <<>>, !.cacheTs = 0,
                                    !.cacheError = <<>>]
    /\ UNCHANGED <<pc, now, call, tui, _state, _cache, _refreshTimerId, sources, inflight, ui, menu>>

----------------------------------------------------------------------------
(* The wall clock *)

\* a second passes; a due fetch timer fires, and its continuation runs, first
Tick ==
    /\ idle
    /\ now < MaxNow
    /\ \A i \in 1 .. Len(inflight) : ~due(inflight[i])
    /\ now' = now + 1
    /\ UNCHANGED <<pc, _state, _cache, _refreshTimerId, sources, settings, inflight,
                   ui, menu, call, tui>>

----------------------------------------------------------------------------

Next ==
    \/ EnableLoadCache
    \/ EnableRender
    \/ EnableStart
    \/ Disable
    \/ Restart
    \/ TimerTick
    \/ ManualRefresh
    \/ \E refreshOnOpen \in BOOLEAN : MenuOpen(refreshOnOpen)
    \/ MenuClose
    \/ \E i \in 1 .. Len(inflight) : FetchTimeout(i)
    \/ \E i \in 1 .. Len(inflight), proc \in ProcessOutcomes : ProcessExit(i, proc)
    \/ \E i \in 1 .. Len(inflight) : FetchFailed(i)
    \/ \E v \in StaleValues : SetStaleAfter(v)
    \/ \E v \in IntervalValues : SetRefreshInterval(v)
    \/ SetDisplayOption
    \/ ClearCache
    \/ Tick

Spec == Init /\ [][Next]_vars

----------------------------------------------------------------------------
(* The state machine while the thresholds are changed in the preferences    *)
(* window: enable and disable, the refresh triggers, the fetch attempts,    *)
(* the clock and the two threshold keys.                                    *)

NextThresholds ==
    \/ EnableLoadCache
    \/ EnableRender
    \/ EnableStart
    \/ Disable
    \/ TimerTick
    \/ ManualRefresh
    \/ \E refreshOnOpen \in BOOLEAN : MenuOpen(refreshOnOpen)
    \/ MenuClose
    \/ \E i \in 1 .. Len(inflight) : FetchTimeout(i)
    \/ \E i \in 1 .. Len(inflight), proc \in ProcessOutcomes : ProcessExit(i, proc)
    \/ \E i \in 1 .. Len(inflight) : FetchFailed(i)
    \/ \E v \in WarningValues : SetWarningThreshold(v)
    \/ \E v \in CriticalValues : SetCriticalThreshold(v)
    \/ Tick

SpecThresholds == Init /\ [][NextThresholds]_vars

----------------------------------------------------------------------------
(* The enabled extension while the CLI path and the CLI timeout are changed *)
(* in the preferences window.  The staleness window is two units, so that   *)
(* both timeouts are within it, as the ranges of the preferences make them. *)

CliTimeoutValues == {1, 2}

InitCliConfig ==
    /\ pc = "off" /\ now = 1 /\ _state = IDLE /\ _cache = constructed
    /\ _refreshTimerId = null
    /\ settings = [installed EXCEPT !.staleAfter = 2]
    /\ inflight = <<>> /\ ui = null /\ menu = null /\ sources = {}
    /\ call = null /\ tui = UsageTuiIndicator(TRUE)

NextCliConfig ==
    \/ EnableLoadCache
    \/ EnableRender
    \/ EnableStart
    \/ TimerTick
    \/ ManualRefresh
    \/ \E refreshOnOpen \in BOOLEAN : MenuOpen(refreshOnOpen)
    \/ MenuClose
    \/ \E i \in 1 .. Len(inflight) : FetchTimeout(i)
    \/ \E i \in 1 .. Len(inflight), proc \in ProcessOutcomes : ProcessExit(i, proc)
    \/ \E i \in 1 .. Len(inflight) : FetchFailed(i)
    \/ \E v \in CliPaths : SetCliPath(v)
    \/ \E v \in CliTimeoutValues : SetCliTimeout(v)
    \/ Tick

SpecCliConfig == InitCliConfig /\ [][NextCliConfig]_vars

----------------------------------------------------------------------------
(* The enabled extension with a CLI that fails in every way fetchProviders  *)
(* distinguishes: besides the outcomes above, output that is JSON but not   *)
(* an array, and a nonzero exit with a message on standard error.           *)

FailureOutcomes ==
    ProcessOutcomes \cup
    { [exitStatus |-> 0, stdout |-> stringifyValue(RawProvider(null, null, null)),
       stderr |-> <<>>],
      [exitStatus |-> 1, stdout |-> <<>>, stderr |-> <<"fatal">>] }

NextFailures ==
    \/ EnableLoadCache
    \/ EnableRender
    \/ EnableStart
    \/ TimerTick
    \/ ManualRefresh
    \/ \E refreshOnOpen \in BOOLEAN : MenuOpen(refreshOnOpen)
    \/ MenuClose
    \/ \E i \in 1 .. Len(inflight) : FetchTimeout(i)
    \/ \E i \in 1 .. Len(inflight), proc \in FailureOutcomes : ProcessExit(i, proc)
    \/ \E i \in 1 .. Len(inflight) : FetchFailed(i)
    \/ \E v \in StaleValues : SetStaleAfter(v)
    \/ Tick

SpecFailures == Init /\ [][NextFailures]_vars

----------------------------------------------------------------------------
(* The enabled extension with a CLI whose array may hold an element that   *)
(* is not an object                                                        *)

ElementOutcomes ==
    ProcessOutcomes \cup
    { [exitStatus |-> 0, stdout |-> stringify(<<JNum(0)>>), stderr |-> <<>>] }

NextElements ==
    \/ EnableLoadCache
    \/ EnableRender
    \/ EnableStart
    \/ TimerTick
    \/ ManualRefresh
    \/ \E refreshOnOpen \in BOOLEAN : MenuOpen(refreshOnOpen)
    \/ MenuClose
    \/ \E i \in 1 .. Len(inflight) : FetchTimeout(i)
    \/ \E i \in 1 .. Len(inflight), proc \in ElementOutcomes : ProcessExit(i, proc)
    \/ \E i \in 1 .. Len(inflight) : FetchFailed(i)
    \/ Tick

SpecElements == Init /\ [][NextElements]_vars

\* enable() runs to its end, a due timeout timer fires, a process exits and
\* a resolved fetch is continued
FairElements ==
    /\ WF_vars(EnableRender)
    /\ WF_vars(EnableStart)
    /\ WF_vars(\E i \in 1 .. Len(inflight) : FetchTimeout(i))
    /\ WF_vars(\E i \in 1 .. Len(inflight), proc \in ElementOutcomes :
                    ProcessExit(i, proc))
    /\ WF_vars(\E i \in 1 .. Len(inflight) : FetchFailed(i))

SpecElementsFair == Init /\ [][NextElements]_vars /\ FairElements

----------------------------------------------------------------------------
(* The enabled extension with the provider switches of the preferences     *)
(* window                                                                  *)

NextVisibility ==
    \/ EnableLoadCache
    \/ EnableRender
    \/ EnableStart
    \/ TimerTick
    \/ \E refreshOnOpen \in BOOLEAN : MenuOpen(refreshOnOpen)
    \/ MenuClose
    \/ \E i \in 1 .. Len(inflight) : FetchTimeout(i)
    \/ \E i \in 1 .. Len(inflight), proc \in ProcessOutcomes : ProcessExit(i, proc)
    \/ \E i \in 1 .. Len(inflight) : FetchFailed(i)
    \/ \E id \in KnownProviders : SetProviderVisibility(id)
    \/ Tick

SpecVisibility == Init /\ [][NextVisibility]_vars

----------------------------------------------------------------------------
(* Library functions called on their own: the input is drawn at the start,  *)
(* the call computes the result.  The state machine stays as constructed.   *)

Constructed ==
    /\ pc = "off" /\ now = 1 /\ _state = IDLE /\ _cache = constructed
    /\ _refreshTimerId = null /\ settings = installed /\ inflight = <<>>
    /\ ui = null /\ menu = null /\ sources = {}

\* (the usage-tui indicator stays as constructed, too)
Called(fn, inputs) ==
    /\ tui = UsageTuiIndicator(TRUE)
    /\ call \in { Some([fn |-> fn, arg |-> arg, result |-> null]) : arg \in inputs }

Return(fn, value) ==
    /\ call # null /\ Get(call).fn = fn /\ Get(call).result = null
    /\ call' = Some([Get(call) EXCEPT !.result = Some(value)])
    /\ UNCHANGED <<machine, tui>>

returned(fn) == call # null /\ Get(call).fn = fn /\ Get(call).result # null
input == Get(call).arg
output == Get(Get(call).result)

\* the visual state of _updateUI, for every state and every pair of counts
VisualInputs ==
    { [state |-> st, stats |-> [warningCount |-> w, criticalCount |-> c]] :
        st \in State, w \in 0 .. MaxCount, c \in 0 .. MaxCount }

InitVisual == Constructed /\ Called("visualState", VisualInputs)
DetermineVisualState ==
    Return("visualState", visualState(input.state, input.stats))
NextVisual == DetermineVisualState
SpecVisual == InitVisual /\ [][NextVisual]_vars

\* fetchProviders from the moment the process has exited, for the exit
\* status and the two streams the process can leave behind
ArrayElements ==
    { rawCodex, rawGemini, rawCli, RawProvider(null, null, null),
      JNull, JNum(0), JNum(7) }
Arrays ==
    UNION { [1 .. n -> ArrayElements] : n \in 0 .. MaxArray }
Stdouts ==
    { <<>>, <<" ">>, <<"oops">>, <<"[", "oops", "]">> }
    \cup { stringifyValue(v) :
             v \in { JNull, JNum(0), JNum(7), JBool(FALSE), JBool(TRUE),
                     JStr(""), JStr("codex"),
                     RawProvider(null, null, null), rawGemini } }
    \cup { stringify(a) : a \in Arrays }
Stderrs ==
    { <<>>, <<" ">>, <<"fatal">>, stringify(<<rawGemini>>) }
Processes ==
    { [exitStatus |-> e, stdout |-> out, stderr |-> err] :
        e \in {0, 1}, out \in Stdouts, err \in Stderrs }

InitFetchResult == Constructed /\ Called("fetchProviders", Processes)
Communicated == Return("fetchProviders", completed(input, now))
NextFetchResult == Communicated
SpecFetchResult == InitFetchResult /\ [][NextFetchResult]_vars

\* calculateAggregateStats, for lists of normalized providers whose windows
\* lie below, at and above the thresholds, and for default and custom
\* thresholds
Window(label, remaining, resetsAt) ==
    normalizeWindow(Some(RawWindow(Some(100 - remaining), resetsAt)), label)
Shapes ==
    { [primary |-> p, secondary |-> s, tertiary |-> t, error |-> e] :
        p \in {null} \cup { Window("Session", r, null) : r \in {3, 5, 20, 100} },
        s \in {null, Window("Weekly", 20, Some(3))},
        t \in {null, Window("Tertiary", 3, Some(2))},
        e \in {null, Some(RawError(Some(<<"failed">>)))} }
ProviderIds == <<"codex", "claude", "gemini">>
Shaped(f) ==
    [i \in DOMAIN f |->
        Provider(ProviderIds[i], formatProviderName(Some(ProviderIds[i])),
                 f[i].primary, f[i].secondary, f[i].tertiary, f[i].error)]
StatsLists ==
    UNION { { Shaped(f) : f \in [1 .. n -> Shapes] } : n \in 0 .. MaxProviders }
CustomOptions == [warningThreshold |-> 30, criticalThreshold |-> 10]
StatsInputs ==
    { [providers |-> l, options |-> o] :
        l \in {null} \cup { Some(list) : list \in StatsLists },
        o \in {DefaultOptions, CustomOptions} }

InitStats == Constructed /\ Called("calculateAggregateStats", StatsInputs)
Aggregate ==
    Return("calculateAggregateStats",
           calculateAggregateStats(input.providers, input.options))
NextStats == Aggregate
SpecStats == InitStats /\ [][NextStats]_vars

\* normalizeWindow, for no window and for windows whose usedPercent is
\* absent, within 0 .. 100 or above 100
UsedPercents == {0, 1, 30, 50, 99, 100, 101, 130, 250}
WindowInputs ==
    { [window |-> w, defaultLabel |-> l] :
        w \in {null} \cup
              { Some(RawWindow(u, r)) :
                  u \in {null} \cup { Some(n) : n \in UsedPercents },
                  r \in {null, Some(2)} },
        l \in {"Session", "Weekly", "Tertiary"} }

InitWindow == Constructed /\ Called("normalizeWindow", WindowInputs)
NormalizeWindow ==
    Return("normalizeWindow", normalizeWindow(input.window, input.defaultLabel))
NextWindow == NormalizeWindow
SpecWindow == InitWindow /\ [][NextWindow]_vars

\* normalizeProvider, for null, for values that are not objects and for
\* objects with and without a provider id, usage windows and an error
RawIds == {"", "codex", "CODEX", "Claude", "gemini", "acme"} \cup NumberIds
RawUsages ==
    { RawUsage(Some(RawWindow(Some(70), null)), null, null),
      RawUsage(Some(RawWindow(null, null)), Some(RawWindow(Some(130), Some(3))),
               Some(RawWindow(Some(100), null))) }
ProviderInputs ==
    { JNull, JNum(0), JNum(7), JStr(""), JStr("codex"), JBool(FALSE) } \cup
    { RawProvider(id, usage, error) :
        id \in {null} \cup { Some(name) : name \in RawIds },
        usage \in {null} \cup { Some(u) : u \in RawUsages },
        error \in {null, Some(RawError(Some(<<"Auth failed">>)))} }

InitProvider == Constructed /\ Called("normalizeProvider", ProviderInputs)
NormalizeProvider == Return("normalizeProvider", normalizeProvider(input))
NextProvider == NormalizeProvider
SpecProvider == InitProvider /\ [][NextProvider]_vars

\* _buildProviderRow, for one provider of every shape and the thresholds the
\* settings can hold (0 included)
RowThresholds ==
    { [warningThreshold |-> w, criticalThreshold |-> c] :
        w \in {0, 20, 30}, c \in {0, 5, 10} }
RowInputs ==
    { [provider |-> Shaped(<<sh>>)[1], options |-> o] :
        sh \in Shapes, o \in RowThresholds }

InitRow == Constructed /\ Called("_buildProviderRow", RowInputs)
BuildProviderRow ==
    Return("_buildProviderRow", _buildProviderRow(input.provider, input.options))
NextRow == BuildProviderRow
SpecRow == InitRow /\ [][NextRow]_vars

----------------------------------------------------------------------------
(* The UsageTuiIndicator in the panel; the CodexBar extension stays as      *)
(* constructed.                                                             *)

InitUsageTui ==
    /\ Constructed /\ call = null
    /\ tui \in { UsageTuiIndicator(spawned) : spawned \in BOOLEAN }

\* the auto-refresh timer fires
AutoRefresh ==
    /\ Len(tui.procs) < MaxRefreshes
    /\ \E spawned \in BOOLEAN : tui' = _refreshData(tui, "timer", spawned)
    /\ UNCHANGED <<machine, call>>

\* 'Refresh Now' is activated
RefreshNow ==
    /\ Len(tui.procs) < MaxRefreshes
    /\ \E spawned \in BOOLEAN : tui' = _refreshData(tui, "button", spawned)
    /\ UNCHANGED <<machine, call>>

\* subprocess i exits: with JSON on stdout, with other text on stdout, or
\* unsuccessfully
SubprocessOutcomes == {"json", "unparsable", "failed"}
Completed(i, outcome) ==
    /\ tui.procs[i].status = "running"
    /\ tui' = completion(tui, i, outcome)
    /\ UNCHANGED <<machine, call>>

NextUsageTui ==
    \/ AutoRefresh
    \/ RefreshNow
    \/ \E i \in 1 .. Len(tui.procs), outcome \in SubprocessOutcomes :
            Completed(i, outcome)

SpecUsageTui == InitUsageTui /\ [][NextUsageTui]_vars

----------------------------------------------------------------------------
(* Properties *)

\* the step is the continuation of _refresh for attempt i, whose fetch
\* resolved to fetchProviders(inflight[i], proc)
Resolved(i, proc) == ProcessExit(i, proc) \/ FetchFailed(i)

\* the staleness rule as the documentation states it
ruled(a) == IF a > settings.staleAfter THEN STALE ELSE OK

\* C1: a fetch that completes with Failure leaves the cache's providers
\* payload and success timestamp exactly as they were just before; only the
\* error message field changes (to the failure's message).
C1_FailureKeepsCache ==
    [][\A i \in 1 .. Len(inflight), proc \in ProcessOutcomes :
        LET result == fetchProviders(inflight[i], proc) IN
        (Resolved(i, proc) /\ ~result.success)
            => /\ _cache'.providers = _cache.providers
               /\ _cache'.timestamp = _cache.timestamp
               /\ _cache'.error = result.error]_vars

\* a failure has been handled while a payload fetched earlier is cached
C1_Witness ==
    /\ _cache.providers = Some(ThreeProviders)
    /\ _cache.error = Some(ParseMsg)
    /\ _cache.timestamp < now

\* C2: in every reachable state at most one fetchProviders call is in
\* flight, whatever the interleaving of enable, disable, timer ticks, manual
\* refreshes, menu openings, settings changes and fetch completions.
C2_AtMostOneFetchInFlight ==
    Cardinality({i \in 1 .. Len(inflight) : inflight[i].status = "running"}) <= 1

C4_FailureState ==
    [][\A i \in 1 .. Len(inflight), proc \in ProcessOutcomes :
        LET result == fetchProviders(inflight[i], proc) IN
        (Resolved(i, proc) /\ ~result.success)
            => /\ _state' = IF _cache.providers = null THEN ERROR
                            ELSE ERROR_WITH_CACHE
               /\ pc = "on" => /\ ui' # null
                               /\ Get(ui').state = _state'
                               /\ Get(ui').providers = _cache.providers
                               /\ Get(ui').error = result.error]_vars

\* the scenario of the failure with a prior cache of three providers
C4_Witness ==
    /\ pc = "on" /\ _state = ERROR_WITH_CACHE
    /\ ui # null /\ Get(ui).state = ERROR_WITH_CACHE
    /\ Len(Get(Get(ui).providers)) = 3
    /\ Get(ui).error = Some(ExitCodeMsg(1))

\* C5: a fetch completing with Failure leaves the durable keys
\* cache-last-payload and cache-last-success-ts with the values they held
\* just before that completion, whatever those are (also after Clear Cache
\* emptied them); it writes cache-last-error only.
C5_FailureKeepsDurablePayload ==
    [][\A i \in 1 .. Len(inflight), proc \in ProcessOutcomes :
        LET result == fetchProviders(inflight[i], proc) IN
        (Resolved(i, proc) /\ ~result.success)
            => /\ settings'.cachePayload = settings.cachePayload
               /\ settings'.cacheTs = settings.cacheTs]_vars

\* C6: once the timeout timer of a fetch attempt fired, the attempt resolves
\* once, to the Timeout failure, whether or not process output arrives
\* later; that output is never taken as Success and the cache payload and
\* success timestamp stay as they are.
C6_TimeoutWins ==
    [][\A i \in 1 .. Len(inflight), proc \in ProcessOutcomes :
        (inflight[i].status = "cancelled" /\ Resolved(i, proc))
            => /\ _cache'.error = Some(TimeoutMsg(inflight[i].timeout))
               /\ _cache'.providers = _cache.providers
               /\ _cache'.timestamp = _cache.timestamp
               /\ _state' \in {ERROR, ERROR_WITH_CACHE}
               /\ Len(inflight') = Len(inflight) - 1]_vars

\* a timeout has been handled with a payload in the cache
C6_Witness ==
    /\ _state = ERROR_WITH_CACHE
    /\ _cache.error = Some(TimeoutMsg(1))
    /\ _cache.providers # null
    /\ inflight = <<>>

\* C7: when _updateUI observes, in state ERROR_WITH_CACHE, that the cache
\* age exceeds stale-after-seconds, the state becomes STALE (message kept):
\* no view model is pushed with state ERROR_WITH_CACHE and such an age.
C7_ErrorWithCacheTurnsStale ==
    [][(ui' # ui /\ ui' # null)
        => ~ /\ Get(ui').state = ERROR_WITH_CACHE
             /\ cacheAge(_cache', now') > settings'.staleAfter]_vars

\* C8: with a cached payload the state evaluates to OK when the age is at
\* most stale-after-seconds and to STALE when it is strictly greater, at
\* the startup load and at every evaluation of an OK state by _updateUI,
\* and the evaluation starts no fetch.
C8_StalenessBoundary ==
    [][/\ (EnableLoadCache /\ _cache'.providers # null)
            => _state' = ruled(now - _cache'.timestamp)
       /\ ((EnableRender \/ (SetDisplayOption /\ pc = "on")) /\ _state = OK)
            => /\ _state' = ruled(now - _cache.timestamp)
               /\ Get(ui').state = _state'
               /\ inflight' = inflight]_vars

\* an OK state was found one unit past the window and turned STALE, with no
\* fetch in flight
C8_Witness ==
    /\ pc = "on" /\ _state = STALE /\ _cache.error = null
    /\ inflight = <<>>
    /\ ui # null /\ Get(ui).state = STALE
    /\ now - _cache.timestamp = settings.staleAfter + 1

\* C9: whenever a consumer reads the state (the pushed view model, or the
\* state getter as rebuildMenu does) while the last state was OK and the
\* cache age exceeds stale-after-seconds, it reads STALE.
C9_EveryReadRecomputes ==
    [][(menu' # menu /\ menu' # null)
        => ~ /\ Get(menu').state = OK
             /\ cacheAge(_cache', now') > settings'.staleAfter]_vars

\* C10: startup seeding from the durable record: with a payload the initial
\* state is OK or STALE by the staleness rule, with no payload but an error
\* message it is ERROR, otherwise IDLE.
C10_StartupSeeding ==
    [][(EnableLoadCache /\ _cache = constructed /\ _state = IDLE)
        => /\ _state' =
                IF Len(settings.cachePayload) > 0
                THEN ruled(now - settings.cacheTs)
                ELSE IF Len(settings.cacheError) > 0 THEN ERROR
                ELSE IDLE
           /\ Len(settings.cachePayload) > 0
                => /\ _cache'.providers = Some(parse(settings.cachePayload))
                   /\ _cache'.timestamp = settings.cacheTs]_vars

\* a record holding only an error message has seeded ERROR
C10_Witness ==
    /\ pc = "seeded" /\ _state = ERROR
    /\ Len(settings.cachePayload) = 0
    /\ _cache = [providers |-> null, timestamp |-> 0,
                 error |-> Some(settings.cacheError)]

C12_ThresholdsApplied ==
    [][(/\ pc = "on"
        /\ \/ \E v \in WarningValues : SetWarningThreshold(v)
           \/ \E v \in CriticalValues : SetCriticalThreshold(v))
        => LET stats == calculateAggregateStats(_cache.providers,
                            [warningThreshold |-> settings'.warningThreshold,
                             criticalThreshold |-> settings'.criticalThreshold])
           IN  /\ inflight' = inflight
               /\ ui' # null
               /\ Get(ui').warningCount = stats.warningCount
               /\ Get(ui').criticalCount = stats.criticalCount
               /\ Get(ui').visualState = visualState(Get(ui').state, stats)]_vars

\* C13: a change of stale-after-seconds while enabled re-evaluates an OK
\* state against the new window (STALE if the cache age exceeds it, else
\* OK) and pushes the view model with that state, starting no fetch.
C13_StaleWindowReevaluated ==
    [][(pc = "on" /\ _state = OK /\ \E v \in StaleValues : SetStaleAfter(v))
        => LET evaluated == IF cacheAge(_cache, now) > settings'.staleAfter
                            THEN STALE ELSE OK
           IN  /\ inflight' = inflight
               /\ _state' = evaluated
               /\ ui' # null /\ Get(ui').state = evaluated]_vars

\* C14: at every moment at most one periodic refresh timer is armed: while
\* enabled exactly one, with the interval now configured (so a change of
\* refresh-interval has replaced the timer within the same step); before
\* enable has scheduled it and after disable, none.
C14_OneTimerArmed ==
    /\ Cardinality(sources) <= 1
    /\ sources = _refreshTimerId
    /\ pc = "on" => sources = {settings.refreshInterval}
    /\ pc # "on" => sources = {}

\* the interval was changed from the installed one and one timer is armed
C14_Witness ==
    /\ pc = "on" /\ settings.refreshInterval = 60 /\ sources = {60}
    /\ inflight # <<>>

\* the attempt a step has started, if it started one
startsFetch == Len(inflight') = Len(inflight) + 1
newest == inflight'[Len(inflight')]

\* C15: a change of cli-path or cli-timeout starts no fetch and changes
\* neither state, cache, view model nor any attempt in flight (an attempt
\* keeps the timeout it was started with); every fetch started afterwards,
\* by the timer, the menu or at enable, runs with the values configured at
\* that moment.
C15_CliSettingsNextFetch ==
    [][/\ (\/ \E v \in CliPaths : SetCliPath(v)
           \/ \E v \in CliTimeoutValues : SetCliTimeout(v))
            => /\ UNCHANGED <<_state, _cache, inflight, ui, menu, sources>>
               /\ settings'.cachePayload = settings.cachePayload
               /\ settings'.cacheError = settings.cacheError
       /\ startsFetch
            => /\ newest.timeout = settings.cliTimeout
               /\ newest.cliPath = settings.cliPath
               /\ newest.start = now
       /\ \A i \in 1 .. Len(inflight) :
            /\ FetchTimeout(i) => now >= inflight[i].start + inflight[i].timeout
            /\ (inflight[i].status = "cancelled" /\ FetchFailed(i))
                => _cache'.error = Some(TimeoutMsg(inflight[i].timeout))]_vars

\* a fetch runs with a timeout and a path that were configured after the
\* install, and the timeout has been changed again while it is in flight
C15_Witness ==
    /\ Len(inflight) = 1 /\ inflight[1].status = "running"
    /\ inflight[1].timeout = 2 /\ inflight[1].cliPath = "/opt/codexbar"
    /\ settings.cliTimeout = 1 /\ settings.cliPath = "/tmp/missing"

\* C20: a fetch started while an executable path is configured that fails
\* the is-executable test finds no binary, whatever the PATH lookup would
\* return, spawns no process and resolves at once to the NotFound failure;
\* the binary found on PATH is used only when no path is configured.
C20_ConfiguredPathNoFallback ==
    [][/\ startsFetch
            => /\ (settings.cliPath # "" /\ settings.cliPath \notin Executables)
                    => newest.binary = null /\ newest.status = "notfound"
               /\ (settings.cliPath # "" /\ settings.cliPath \in Executables)
                    => newest.binary = Some(settings.cliPath)
               /\ newest.binary \in PathLookups \ {null} => settings.cliPath = ""
       /\ \A i \in 1 .. Len(inflight) :
            inflight[i].status = "notfound"
                => /\ \A proc \in ProcessOutcomes : ~ProcessExit(i, proc)
                   /\ FetchFailed(i)
                   /\ _cache'.error = Some(NotFoundMsg)
                   /\ _cache'.providers = _cache.providers]_vars

\* a fetch was started with a configured path that is not executable and
\* found no binary
C20_Witness ==
    /\ Len(inflight) = 1
    /\ inflight[1].cliPath = "/tmp/missing"
    /\ inflight[1].binary = null /\ inflight[1].status = "notfound"
    /\ _state = LOADING

\* the array a text holds, if it is the JSON text of an array
holdsArray(text) == isJSON(text) /\ isArray(JSONparse(text))
itemsOf(text) == JSONparse(text).items

\* C16: for an exit with code zero, standard output that is not valid JSON
\* yields the parse failure, and standard output that is valid JSON but not
\* an array (an object, a number, a string, a boolean, null) yields the
\* unexpected-format failure.
C16_ZeroExitClassification ==
    (returned("fetchProviders") /\ input.exitStatus = 0)
        => /\ ~isJSON(input.stdout) => output = Failure(ParseMsg, now)
           /\ (isJSON(input.stdout) /\ ~holdsArray(input.stdout))
                => output = Failure(FormatMsg, now)

\* C17: for an exit with code zero whose output is a JSON array the result
\* is a Success whatever the elements are, and every well-formed provider
\* payload of the array is returned, normalized.
C17_ElementsNeverFailTheBatch ==
    (returned("fetchProviders") /\ input.exitStatus = 0 /\ holdsArray(input.stdout))
        => /\ output.success
           /\ \A i \in 1 .. Len(itemsOf(input.stdout)) :
                LET p == itemsOf(input.stdout)[i] IN
                (p.t = "raw" /\ ~isCliMeta(p))
                    => \E j \in 1 .. Len(Get(output.providers)) :
                            Get(output.providers)[j] = normalizeProvider(p)

\* C18: on Success the providers are, in input order, the normalizations of
\* the elements other than the CLI metadata entry, without those that
\* normalize to null: no entry of the list is null.
C18_ProvidersWithoutNull ==
    (returned("fetchProviders") /\ output.success)
        => LET kept == SelectSeq(itemsOf(input.stdout), LAMBDA p : ~isCliMeta(p))
               normalized == [i \in 1 .. Len(kept) |-> normalizeProvider(kept[i])]
           IN  /\ Get(output.providers) =
                      SelectSeq(normalized, LAMBDA p : p # JNull)
               /\ \A j \in 1 .. Len(Get(output.providers)) :
                      Get(output.providers)[j] # JNull

\* the messages of the error objects of the items of a stream
errorMessages(text) ==
    IF ~holdsArray(text) THEN {}
    ELSE { Get(Get(itemsOf(text)[i].error).message) :
             i \in { k \in 1 .. Len(itemsOf(text)) :
                        /\ hasError(itemsOf(text)[k])
                        /\ Get(itemsOf(text)[k].error).message # null } }

\* C19: for a nonzero exit the result is a Failure without providers,
\* whatever standard output holds; its message is the message of an item's
\* error object if standard output or standard error is a JSON array with
\* such an item, otherwise the text of standard error if there is any,
\* otherwise the generic message with the exit code.
C19_NonzeroExitMessage ==
    (returned("fetchProviders") /\ input.exitStatus # 0)
        => LET embedded == errorMessages(input.stdout) \cup errorMessages(input.stderr)
               generic == ExitCodeMsg(input.exitStatus)
           IN  /\ ~output.success /\ output.providers = null
               /\ output.error # null
               /\ Get(output.error) \in
                     IF embedded # {} THEN embedded
                     ELSE IF trim(input.stderr) # <<>>
                     THEN {input.stderr, trim(input.stderr)}
                     ELSE {input.stderr, generic} \ {<<>>}

\* the messages of the five failure kinds
FailureMessages ==
    { NotFoundMsg, ParseMsg, FormatMsg, ExitCodeMsg(1), <<"fatal">> }
    \cup { TimeoutMsg(t) : t \in TimeoutValues }

\* C21: a fetch that fails in any of the five ways (not found, timeout,
\* nonzero exit, parse error, unexpected format) puts the state in ERROR or
\* ERROR_WITH_CACHE and pushes the failure's message, unmodified, as
\* lastError; the next timer tick is then accepted (it starts a fetch), and
\* a Success that follows a failure gives OK with the message cleared.
C21_FailuresRecoverable ==
    [][/\ \A i \in 1 .. Len(inflight), proc \in FailureOutcomes :
            LET result == fetchProviders(inflight[i], proc) IN
            /\ (Resolved(i, proc) /\ ~result.success)
                => /\ Get(result.error) \in FailureMessages
                   /\ _state' \in {ERROR, ERROR_WITH_CACHE}
                   /\ ui' # null /\ Get(ui').state = _state'
                   /\ Get(ui').error = result.error
                   /\ _cache'.error = result.error
            /\ (Resolved(i, proc) /\ result.success /\ _cache.error # null)
                => /\ _state' = OK
                   /\ Get(ui').state = OK /\ Get(ui').error = null
       /\ (pc = "on" /\ idle /\ _state \in {ERROR, ERROR_WITH_CACHE})
            => ENABLED TimerTick
       /\ (TimerTick /\ _state \in {ERROR, ERROR_WITH_CACHE})
            => _state' = LOADING /\ startsFetch]_vars

\* after a failure of the fifth kind, shown with the cached providers, the
\* next trigger has been accepted and its fetch is running
C21_Witness ==
    /\ pc = "on" /\ _state = LOADING
    /\ _cache.error = Some(FormatMsg) /\ _cache.providers = Some(ThreeProviders)
    /\ Len(inflight) = 1 /\ inflight[1].status = "running"
    /\ inflight[1].start > _cache.timestamp

\* C22: the result of every fetch attempt, Success or Failure, carries the
\* wall-clock time at which the attempt was started, not the time of its
\* completion; after a Success the cache's timestamp, in memory and in the
\* durable record, is the start time of that fetch.
C22_TimestampOfInitiation ==
    [][/\ startsFetch => newest.start = now
       /\ \A i \in 1 .. Len(inflight), proc \in FailureOutcomes :
            LET result == fetchProviders(inflight[i], proc) IN
            Resolved(i, proc)
                => /\ result.timestamp = inflight[i].start
                   /\ result.success
                        => /\ _cache'.timestamp = inflight[i].start
                           /\ settings'.cacheTs = inflight[i].start
                           /\ Get(ui').timestamp = inflight[i].start]_vars

\* a Success that arrived one unit after its fetch was started is cached
\* with the start time
C22_Witness ==
    /\ pc = "on" /\ _state = OK /\ inflight = <<>>
    /\ _cache.timestamp = 2 /\ now = 3
    /\ settings.cacheTs = 2 /\ settings.staleAfter = 2
    /\ Get(ui).timestamp = 2 /\ Get(ui).state = OK

\* C23: every step that changes the state of the enabled extension (to
\* LOADING on a trigger, from LOADING to OK, ERROR or ERROR_WITH_CACHE on
\* completion, from OK to STALE) has pushed, before it ends, a view model
\* with the new state, the cached providers, their stats and the last error.
C23_StateChangePushed ==
    [][(pc' \in {"rendered", "on"} /\ _state' # _state)
        => /\ ui' # null
           /\ Get(ui').state = _state'
           /\ Get(ui').providers = _cache'.providers
           /\ Get(ui').error = _cache'.error
           /\ LET stats == calculateAggregateStats(_cache'.providers,
                                                   DefaultOptions)
              IN  /\ Get(ui').percentage = stats.minRemainingPercent
                  /\ Get(ui').warningCount = stats.warningCount
                  /\ Get(ui').criticalCount = stats.criticalCount
                  /\ Get(ui').nextReset = stats.nextResetTime]_vars

\* the positions of the providers of a list that carry no error
counted(providers) ==
    IF providers = null THEN {}
    ELSE { i \in 1 .. Len(Get(providers)) : Get(providers)[i].error = null }

\* C24: minRemainingPercent is the least remainingPercent over the windows
\* present on the providers without error, and is null exactly when there is
\* no such window.
C24_TrueMinimum ==
    returned("calculateAggregateStats")
        => LET present ==
                   { <<i, slot>> \in counted(input.providers)
                                      \X {"primary", "secondary", "tertiary"} :
                       Get(input.providers)[i][slot] # null }
               percent(at) ==
                   Get(Get(input.providers)[at[1]][at[2]]).remainingPercent
           IN  /\ (output.minRemainingPercent = null) <=> (present = {})
               /\ present # {}
                    => /\ output.minRemainingPercent # null
                       /\ \E at \in present :
                            percent(at) = Get(output.minRemainingPercent)
                       /\ \A at \in present :
                            percent(at) >= Get(output.minRemainingPercent)

\* C25: a provider carrying an error counts for nothing: the figures of a
\* list are those of the list without any one of its error providers,
\* whatever windows that provider carries.
C25_ErrorProvidersExcluded ==
    (returned("calculateAggregateStats") /\ input.providers # null)
        => \A k \in 1 .. Len(Get(input.providers)) :
            Get(input.providers)[k].error # null
                => output = calculateAggregateStats(
                                Some(remove(Get(input.providers), k)),
                                input.options)

\* an error provider with a critical window, listed before a provider with a
\* window at 20: the figures are those of the second provider alone
C25_Witness ==
    /\ returned("calculateAggregateStats") /\ input.providers # null
    /\ input.options = DefaultOptions
    /\ Len(Get(input.providers)) = 2
    /\ Get(input.providers)[1].error # null
    /\ Get(input.providers)[1].primary = Window("Session", 3, null)
    /\ Get(input.providers)[1].tertiary # null
    /\ Get(input.providers)[2].error = null
    /\ Get(input.providers)[2].primary = Window("Session", 20, null)
    /\ Get(input.providers)[2].secondary = null
    /\ Get(input.providers)[2].tertiary = null
    /\ output.minRemainingPercent = Some(20)
    /\ output.urgentProvider = Some(Get(input.providers)[2])
    /\ output.criticalCount = 0 /\ output.warningCount = 0
    /\ output.nextResetTime = null

\* the windows present on the providers without error, as <<position, slot>>,
\* and the remaining percent of one
windowsPresent(providers) ==
    IF providers = null THEN {}
    ELSE { at \in counted(providers) \X {"primary", "secondary", "tertiary"} :
             Get(providers)[at[1]][at[2]] # null }
remainingAt(providers, at) ==
    Get(Get(providers)[at[1]][at[2]]).remainingPercent

\* C26: criticalCount is the number of present windows of non-error
\* providers strictly below the critical threshold, warningCount the number
\* of those not below it and strictly below the warning threshold: a window
\* exactly at a threshold does not count for it, no window counts twice, and
\* the two counts together never exceed the number of windows.
C26_StrictBuckets ==
    returned("calculateAggregateStats")
        => LET all == windowsPresent(input.providers)
               left(at) == remainingAt(input.providers, at)
               critical == { at \in all : left(at) < input.options.criticalThreshold }
               warning == { at \in all \ critical :
                              left(at) < input.options.warningThreshold }
           IN  /\ output.criticalCount = Cardinality(critical)
               /\ output.warningCount = Cardinality(warning)
               /\ output.warningCount + output.criticalCount <= Cardinality(all)

\* default thresholds 5 and 20: a window at exactly 5 counts as a warning,
\* not as critical; a window at exactly 20 counts for neither
C26_Witness ==
    /\ returned("calculateAggregateStats") /\ input.providers # null
    /\ input.options = DefaultOptions
    /\ Len(Get(input.providers)) = 2
    /\ windowsPresent(input.providers) = {<<1, "primary">>, <<2, "primary">>}
    /\ remainingAt(input.providers, <<1, "primary">>) = 5
    /\ remainingAt(input.providers, <<2, "primary">>) = 20
    /\ output.criticalCount = 0 /\ output.warningCount = 1

\* C27: the urgent provider owns a window whose remaining percent is the
\* reported minimum, and of several such providers it is the one listed
\* first; without a reported minimum there is none; for a null or empty
\* list every figure is null or 0.
C27_UrgentProviderFirstOfTies ==
    returned("calculateAggregateStats")
        => LET lowest == output.minRemainingPercent
               owners == { at[1] : at \in
                             { w \in windowsPresent(input.providers) :
                                 remainingAt(input.providers, w) = Get(lowest) } }
               first == CHOOSE i \in owners : \A j \in owners : i <= j
           IN  /\ (input.providers = null \/ Get(input.providers) = <<>>)
                    => output = [minRemainingPercent |-> null,
                                 urgentProvider |-> null,
                                 warningCount |-> 0, criticalCount |-> 0,
                                 nextResetTime |-> null]
               /\ lowest = null => output.urgentProvider = null
               /\ lowest # null
                    => /\ owners # {}
                       /\ output.urgentProvider =
                              Some(Get(input.providers)[first])

\* two providers whose lowest windows tie at 3: the one listed first is
\* reported
C27_Witness ==
    /\ returned("calculateAggregateStats") /\ input.providers # null
    /\ Len(Get(input.providers)) = 2
    /\ Get(input.providers)[1].error = null
    /\ Get(input.providers)[1].primary = Window("Session", 20, null)
    /\ Get(input.providers)[1].tertiary = Window("Tertiary", 3, Some(2))
    /\ Get(input.providers)[2].error = null
    /\ Get(input.providers)[2].primary = Window("Session", 3, null)
    /\ output.minRemainingPercent = Some(3)
    /\ output.urgentProvider = Some(Get(input.providers)[1])

\* C28: normalizeWindow returns null for no window; for a window it returns
\* usedPercent as given, or 0 if absent, and remainingPercent = 100 -
\* usedPercent, which is negative for a usedPercent above 100.
C28_WindowNormalized ==
    returned("normalizeWindow")
        => IF input.window = null THEN output = null
           ELSE LET given == Get(input.window).usedPercent
                    used == IF given = null THEN 0 ELSE Get(given)
                IN  /\ output # null
                    /\ Get(output).label = input.defaultLabel
                    /\ Get(output).usedPercent = used
                    /\ Get(output).remainingPercent = 100 - used
                    /\ used > 100 => Get(output).remainingPercent < 0

\* a window reporting 130 percent used has -30 percent remaining
C28_Witness ==
    /\ returned("normalizeWindow") /\ input.window # null
    /\ Get(input.window).usedPercent = Some(130)
    /\ Get(output).usedPercent = 130
    /\ Get(output).remainingPercent = 0 - 30

\* C29: normalizeProvider returns null for null and throws for no object;
\* an object without a provider id gets the id 'unknown' and the name
\* 'Unknown', a known id in any letter case its display name, any other id
\* is its own name.
C29_ProviderNeverThrows ==
    returned("normalizeProvider")
        => /\ input = JNull => output = JNull
           /\ input.t = "raw"
                => /\ output # TypeError
                   /\ output.t = "provider"
                   /\ (input.provider = null \/ input.provider = Some(""))
                        => output.id = "unknown" /\ output.name = "Unknown"
                   /\ (input.provider # null /\ input.provider # Some(""))
                        => /\ output.id = Get(input.provider)
                           /\ output.name =
                                IF toLowerCase(output.id) \in DOMAIN PROVIDER_NAMES
                                THEN PROVIDER_NAMES[toLowerCase(output.id)]
                                ELSE output.id

\* C30: when the output of the CLI is not JSON, the cached providers and
\* their timestamp stay as they were; the indicator is given the visual
\* state stale if providers are cached and the visual state error only if
\* none are.
C30_InvalidJsonShowsStale ==
    [][\A i \in 1 .. Len(inflight), proc \in FailureOutcomes :
        (/\ pc = "on" /\ ProcessExit(i, proc)
         /\ fetchProviders(inflight[i], proc).error = Some(ParseMsg))
            => /\ _cache'.providers = _cache.providers
               /\ _cache'.timestamp = _cache.timestamp
               /\ ui' # null
               /\ Get(ui').providers = _cache.providers
               /\ _cache.providers # null => Get(ui').visualState = "stale"
               /\ _cache.providers = null => Get(ui').visualState = "error"]_vars

\* C31: a provider switched off under provider-visibility has no row in the
\* menu, and the figures given to the indicator (percentage, warning and
\* critical counts, visual state) are those of the visible providers alone.
C31_AggregatesFromVisible ==
    /\ (pc = "on" /\ menu # null)
        => \A i \in 1 .. Len(Get(menu).rows) :
            Get(menu).rows[i] \notin settings.providerVisibility
    /\ (pc = "on" /\ ui # null /\ Get(ui).providers # null)
        => LET stats == calculateAggregateStats(
                            Some(visibleProviders(Get(Get(ui).providers),
                                                  settings.providerVisibility)),
                            DefaultOptions)
           IN  /\ Get(ui).percentage = stats.minRemainingPercent
               /\ Get(ui).warningCount = stats.warningCount
               /\ Get(ui).criticalCount = stats.criticalCount
               /\ Get(ui).visualState = visualState(Get(ui).state, stats)

\* C32: a fetch completion never lowers the timestamp of the cache, in
\* memory or in the durable record, and never replaces the cached payload
\* by the result of a fetch started before the one whose result is cached.
C32_NewestFetchWins ==
    [][\A i \in 1 .. Len(inflight), proc \in ProcessOutcomes :
        Resolved(i, proc)
            => /\ _cache'.timestamp >= _cache.timestamp
               /\ settings'.cacheTs >= settings.cacheTs
               /\ (_cache'.providers # _cache.providers /\ _cache.providers # null)
                    => inflight[i].start >= _cache.timestamp]_vars

\* C33: while the extension is disabled, the completion of a fetch leaves
\* the state IDLE, the cache in memory and the durable record as they were,
\* and nothing is pushed.
C33_CompletionAfterDisableInert ==
    [][\A i \in 1 .. Len(inflight), proc \in ProcessOutcomes :
        (pc = "off" /\ Resolved(i, proc))
            => /\ _state' = _state /\ _state' = IDLE
               /\ _cache' = _cache
               /\ settings' = settings
               /\ ui' = null]_vars

\* C34: state and cache agree in every state: ERROR only without cached
\* providers; OK, STALE and ERROR_WITH_CACHE only with cached providers; and
\* no step of the running extension takes a cached payload away.
C34_StateAgreesWithCache ==
    [][/\ _state' = ERROR => _cache'.providers = null
       /\ _state' \in {OK, STALE, ERROR_WITH_CACHE} => _cache'.providers # null
       /\ (_cache.providers # null /\ ~Restart) => _cache'.providers # null]_vars

\* a fetch has failed while providers are cached
C34_Witness ==
    /\ pc = "on" /\ _state = ERROR_WITH_CACHE
    /\ _cache.providers = Some(ThreeProviders)
    /\ _cache.error = Some(ParseMsg)
    /\ ui # null /\ Get(ui).state = ERROR_WITH_CACHE
    /\ inflight = <<>>

\* C35: whenever the state is OK, the last error read through the getter
\* and the error of the view model last pushed are null, also right after
\* the state was seeded from a durable record.
C35_OkWithoutError ==
    /\ (pc \in {"seeded", "rendered", "on"} /\ _state = OK) => _cache.error = null
    /\ (pc \in {"rendered", "on"} /\ ui # null /\ Get(ui).state = OK)
        => Get(ui).error = null

\* C36: whenever the state of the enabled extension is STALE, the age of the
\* cache exceeds the stale-after-seconds now configured.
C36_StaleMeansOlderThanWindow ==
    (pc = "on" /\ _state = STALE) => now - _cache.timestamp > settings.staleAfter

C39_RowAgreesWithAggregate ==
    (returned("_buildProviderRow") /\ input.provider.error = null)
        => LET stats == calculateAggregateStats(Some(<<input.provider>>),
                                                input.options)
           IN  /\ output = "critical" => stats.criticalCount >= 1
               /\ output = "warning" => stats.warningCount >= 1

\* the refresh started last among those of a nonempty set
lastStarted(ids) == CHOOSE i \in ids : \A j \in ids : j <= i

\* C40: the usage data the indicator holds and displays is the output of
\* the most recently started refresh among those that completed successfully.
C40_NewestRefreshWins ==
    LET done == { i \in 1 .. Len(tui.procs) : tui.procs[i].status = "json" }
    IN  done # {} => /\ tui._usageData = lastStarted(done)
                     /\ tui.shown = lastStarted(done)

====
